---- MODULE Spec2Model ----
(***************************************************************************)
(* contrib/varint/varint.c: variable-width integers of up to 256 bits.     *)
(*                                                                         *)
(* Representation used throughout.  TLC's integers are 32 bits wide, so a  *)
(* C uint32 / uint64 / int64 is a little-endian tuple of 4 / 8 bytes and   *)
(* the C operators on them are the U... operators below, which keep the    *)
(* C width (arithmetic modulo 2^32 and 2^64).  A vb_register is a function *)
(* from 0..VB_LAST_WORD to uint32, as in the struct.  A varlena Datum is   *)
(* [varsize, data]: the size its one-byte header records (header byte      *)
(* included) and the bytes stored after the header.                        *)
(***************************************************************************)
EXTENDS Integers, Sequences, FiniteSets, TLC

VARIABLES
    bigendian,  \* the build: TRUE when WORDS_BIGENDIAN decides the header layout
    da,         \* first input Datum: an encoded value
    db,         \* second input Datum: an encoded value
    text,       \* input text of varint_in: ASCII codes, the NUL left out
    wire,       \* input message of varint_recv: the bytes left in the buffer
    fixed,      \* input Datum of intN_varint: a value passed in 8 bytes
    op,         \* the entry point that ran ("init" before it has)
    out         \* what it returned

inputs == <<bigendian, da, db, text, wire, fixed>>
vars == <<bigendian, da, db, text, wire, fixed, op, out>>

-----------------------------------------------------------------------------
(* C integers as little-endian byte tuples *)

Byte == 0..255

\* the tuple, or the function, with its elements computed (values are stored,
\* as in C, not recomputed on every read)
Tup(f) == f \o <<>>
Fcn(f) == f @@ <<>>

\* e, once v has been computed.  TLC computes the argument of an operator when
\* it is first used; a loop written as a recursion uses After to finish each
\* iteration's assignments before the next iteration begins, as C does.
After(v, e) == IF v = v THEN e ELSE e

UZero(n) == Tup([i \in 1..n |-> 0])

\* the n-byte unsigned integer holding v, 0 <= v < 2^31
UFromNat(v, n) ==
    Tup([i \in 1..n |-> CASE i = 1 -> v % 256
                          [] i = 2 -> (v \div 256) % 256
                          [] i = 3 -> (v \div 65536) % 256
                          [] i = 4 -> (v \div 16777216) % 256
                          [] OTHER -> 0])

\* (uint64) x, and any other zero-extending conversion
UExt(x, n) == Tup([i \in 1..n |-> IF i <= Len(x) THEN x[i] ELSE 0])

\* (int64) x for a signed x
SExt(x, n) ==
    Tup([i \in 1..n |-> IF i <= Len(x) THEN x[i]
                        ELSE IF x[Len(x)] >= 128 THEN 255 ELSE 0])

\* (uint32) x, and any other truncating conversion
UTrunc(x, n) == SubSeq(x, 1, n)

RECURSIVE UAddFrom(_, _, _, _)
UAddFrom(x, y, i, c) ==
    IF i > Len(x) THEN <<>>
    ELSE LET s == x[i] + y[i] + c
         IN  <<s % 256>> \o UAddFrom(x, y, i + 1, s \div 256)

\* x + y in the width of x (y of the same width), wrapping
UAdd(x, y) == UAddFrom(x, y, 1, 0)

\* ~x
UNot(x) == Tup([i \in 1..Len(x) |-> 255 - x[i]])

\* x - y in the width of x, wrapping
USub(x, y) == UAddFrom(x, UNot(y), 1, 1)

RECURSIVE UCmpFrom(_, _, _)
UCmpFrom(x, y, i) ==
    IF i = 0 THEN 0
    ELSE IF x[i] # y[i] THEN (IF x[i] > y[i] THEN 1 ELSE -1)
    ELSE UCmpFrom(x, y, i - 1)

\* unsigned comparisons of two integers of one width
ULt(x, y) == UCmpFrom(x, y, Len(x)) < 0
UGt(x, y) == UCmpFrom(x, y, Len(x)) > 0
UGe(x, y) == UCmpFrom(x, y, Len(x)) >= 0

\* signed comparisons of two integers of one width (two's complement)
SFlip(x) == [x EXCEPT ![Len(x)] = (x[Len(x)] + 128) % 256]
SLt(x, y) == ULt(SFlip(x), SFlip(y))
SGt(x, y) == UGt(SFlip(x), SFlip(y))
SGe(x, y) == UGe(SFlip(x), SFlip(y))

RECURSIVE UMulByteFrom(_, _, _, _)
UMulByteFrom(x, b, i, c) ==
    IF i > Len(x) THEN <<>>
    ELSE LET p == x[i] * b + c
         IN  <<p % 256>> \o UMulByteFrom(x, b, i + 1, p \div 256)

\* x * b for a byte b, in the width of x, wrapping
UMulByte(x, b) == UMulByteFrom(x, b, 1, 0)

\* x << 8k in the width of x
UShlBytes(x, k) == Tup([i \in 1..Len(x) |-> IF i <= k THEN 0 ELSE x[i - k]])

RECURSIVE UMulFrom(_, _, _)
UMulFrom(x, y, j) ==
    IF j > Len(y) THEN UZero(Len(x))
    ELSE IF y[j] = 0 THEN UMulFrom(x, y, j + 1)
    ELSE UAdd(UShlBytes(UMulByte(x, y[j]), j - 1), UMulFrom(x, y, j + 1))

\* x * y in the width of x, wrapping
UMul(x, y) == UMulFrom(x, y, 1)

\* x >> 32 of a uint64 (logical), and of an int64 (arithmetic)
UShr32(x) == <<x[5], x[6], x[7], x[8], 0, 0, 0, 0>>
SShr32(x) == <<x[5], x[6], x[7], x[8]>> \o
             (IF x[8] >= 128 THEN <<255, 255, 255, 255>> ELSE <<0, 0, 0, 0>>)

\* (x << 32) | w for a uint64 x below 2^32 and a uint32 w
UShl32Or(x, w) == <<w[1], w[2], w[3], w[4], x[1], x[2], x[3], x[4]>>

UIsZero(x) == \A i \in 1..Len(x) : x[i] = 0

\* the value of x as a TLC integer, for x below 2^31
UToNat(x) == x[1] + 256 * x[2] + 65536 * x[3] + 16777216 * x[4]

UFitsNat(x) == (\A i \in 5..Len(x) : x[i] = 0) /\ x[4] < 128

\* one bit of long division with a divisor up to 2^30: st = <<remainder, quotient bits>>
DivBit(st, bit, n) ==
    IF (2 * st[1]) + bit >= n
    THEN <<((2 * st[1]) + bit) - n, (2 * st[2]) + 1>>
    ELSE <<(2 * st[1]) + bit, 2 * st[2]>>

\* the bits k..1 of the byte b brought down, most significant first
RECURSIVE DivBitsOfByte(_, _, _, _)
DivBitsOfByte(st, b, k, n) ==
    After(st, IF k = 0 THEN st
              ELSE DivBitsOfByte(DivBit(st, (b \div (2 ^ (k - 1))) % 2, n), b, k - 1, n))

\* long division of the bytes i..1 of x by n <= 2^30, most significant byte
\* first: <<quotient bytes (little-endian), remainder>>, q the quotient bytes
\* found so far and rem the remainder they left
RECURSIVE DivBytesNat(_, _, _, _, _)
DivBytesNat(x, i, q, rem, n) ==
    LET Down(bits) == DivBytesNat(x, i - 1, <<bits[2]>> \o q, bits[1], n)
    IN  After(<<q, rem>>,
              IF i = 0 THEN <<q, rem>>
              ELSE Down(DivBitsOfByte(<<rem, 0>>, x[i], 8, n)))

\* the largest q in lo..hi with y * q <= x (x, y of one width, y * 256 not wrapping)
RECURSIVE QuotDigit(_, _, _, _)
QuotDigit(x, y, lo, hi) ==
    IF lo = hi THEN lo
    ELSE IF UGt(UMulByte(y, (lo + hi + 1) \div 2), x)
    THEN QuotDigit(x, y, lo, ((lo + hi + 1) \div 2) - 1)
    ELSE QuotDigit(x, y, (lo + hi + 1) \div 2, hi)

\* long division of the bytes i..1 of x by any y, both widened to w bytes
RECURSIVE DivBytesWide(_, _, _, _, _, _)
DivBytesWide(x, i, q, rem, y, w) ==
    LET Down(cur, digit) ==
            DivBytesWide(x, i - 1, <<digit>> \o q, USub(cur, UMulByte(y, digit)), y, w)
        Try(cur) == Down(cur, QuotDigit(cur, y, 0, 255))
    IN  After(<<q, rem>>,
              IF i = 0 THEN <<q, rem>>
              ELSE Try(Tup([k \in 1..w |-> IF k = 1 THEN x[i] ELSE rem[k - 1]])))

\* <<x / y, x % y>> for uint64 x and y, y not zero
UDivMod(x, y) ==
    LET Narrow(d) == <<d[1], UFromNat(d[2], 8)>>
        Wide(d)   == <<d[1], UTrunc(d[2], 8)>>
    IN  IF UFitsNat(y) /\ UToNat(y) <= 1073741824
        THEN Narrow(DivBytesNat(x, 8, <<>>, 0, UToNat(y)))
        ELSE Wide(DivBytesWide(x, 8, <<>>, UZero(10), UExt(y, 10), 10))

-----------------------------------------------------------------------------
(* vb_register and its primitives *)

VB_MAX_WORDS == 8
VB_LAST_WORD == VB_MAX_WORDS - 1

\* the uint32 written 0x b3 b2 b1 b0 in C
W(b3, b2, b1, b0) == <<b0, b1, b2, b3>>

PG_INT32_MAX == W(127, 255, 255, 255)

U32(v) == UFromNat(v, 4)
U64(v) == UFromNat(v, 8)

\* memset(&r, 0, sizeof(vb_register))
ZeroRegister == Fcn([i \in 0..VB_LAST_WORD |-> U32(0)])

VB_IS_NEGATIVE(r) == UGt(r[VB_LAST_WORD], PG_INT32_MAX)

\* ereport(ERROR, ...) leaves the function at once: err names the condition
Raised(e, r) == [err |-> e, r |-> r, ret |-> 0]
Returned(r, v) == [err |-> "none", r |-> r, ret |-> v]

vb_overflow(r) == Raised("overflow", r)

RECURSIVE vb_register_negate_loop(_, _, _)
vb_register_negate_loop(r, i, a) ==
    LET Store(n) ==
            vb_register_negate_loop([r EXCEPT ![i] = n], i + 1,
                IF ~UIsZero(a) /\ UIsZero(n) THEN U32(1) ELSE U32(0))
    IN  After(<<r, a>>,
              IF i >= VB_MAX_WORDS THEN r
              ELSE Store(UAdd(UNot(r[i]), a)))

\* the negated register, and 1 when the sign did not change
vb_register_negate(r) ==
    LET Done(r2) ==
            Returned(r2, IF VB_IS_NEGATIVE(r) = VB_IS_NEGATIVE(r2) THEN 1 ELSE 0)
    IN  Done(vb_register_negate_loop(r, 0, U32(1)))

RECURSIVE vb_register_add_uint32_loop(_, _, _)
vb_register_add_uint32_loop(r, i, a) ==
    LET Store(a2) ==
            vb_register_add_uint32_loop([r EXCEPT ![i] = UTrunc(a2, 4)],
                                        i + 1, UShr32(a2))
    IN  After(<<r, a>>,
              IF UIsZero(a) \/ i >= VB_MAX_WORDS THEN r
              ELSE Store(UAdd(a, UExt(r[i], 8))))

vb_register_add_uint32(r, n) ==
    LET Done(r2) ==
            IF ~VB_IS_NEGATIVE(r) /\ VB_IS_NEGATIVE(r2) THEN vb_overflow(r2)
            ELSE Returned(r2, 0)
    IN  Done(vb_register_add_uint32_loop(r, 0, UExt(n, 8)))

RECURSIVE vb_register_sub_uint32_loop(_, _, _)
vb_register_sub_uint32_loop(r, i, n) ==
    LET Store(a, b) ==
            IF UGe(a, b) THEN [r EXCEPT ![i] = b]
            ELSE vb_register_sub_uint32_loop([r EXCEPT ![i] = b], i + 1, U32(1))
    IN  After(<<r, n>>,
              IF i >= VB_MAX_WORDS THEN r
              ELSE Store(r[i], USub(r[i], n)))

vb_register_sub_uint32(r, n) ==
    LET Done(r2) ==
            IF VB_IS_NEGATIVE(r) /\ ~VB_IS_NEGATIVE(r2) THEN vb_overflow(r2)
            ELSE Returned(r2, 0)
    IN  Done(vb_register_sub_uint32_loop(r, 0, n))

\* the long division: <<r, a>> after the loop
RECURSIVE vb_register_divmod_uint32_loop(_, _, _, _)
vb_register_divmod_uint32_loop(r, i, a, n) ==
    LET Store(qm) ==
            vb_register_divmod_uint32_loop([r EXCEPT ![i] = UTrunc(qm[1], 4)],
                                           i - 1, qm[2], n)
    IN  After(<<r, a>>,
              IF i < 0 THEN <<r, a>>
              ELSE Store(UDivMod(UShl32Or(a, r[i]), UExt(n, 8))))

\* vb_register_divmod_uint32 without the negation of the quotient at its end
vb_register_divmod_uint32_magnitude(r, n) ==
    LET Done(d) == Returned(d[1], UTrunc(d[2], 4))
    IN  IF UIsZero(n) THEN Raised("divzero", r)
        ELSE IF n = U32(1) THEN Returned(r, U32(0))
        ELSE Done(vb_register_divmod_uint32_loop(
                      IF VB_IS_NEGATIVE(r) THEN vb_register_negate(r).r ELSE r,
                      VB_LAST_WORD, U64(0), n))

\* the quotient left in r, the remainder returned
vb_register_divmod_uint32(r, n) ==
    LET Done(d) ==
            Returned(IF VB_IS_NEGATIVE(r) THEN vb_register_negate(d[1]).r ELSE d[1],
                     UTrunc(d[2], 4))
    IN  IF UIsZero(n) THEN Raised("divzero", r)
        ELSE IF n = U32(1) THEN Returned(r, U32(0))
        ELSE Done(vb_register_divmod_uint32_loop(
                      IF VB_IS_NEGATIVE(r) THEN vb_register_negate(r).r ELSE r,
                      VB_LAST_WORD, U64(0), n))

\* (c && (t >> 32)) ? 1 : 0
NegateCarry(c, t) ==
    IF ~UIsZero(c) /\ ~UIsZero(UShr32(t)) THEN U64(1) ELSE U64(0)

\* the loop of the negative branch: <<r, a>>, a the carry out of the top word.
\* t1 is t after the first negation, a2 is a after the multiplication and t4
\* is t after the second negation.
RECURSIVE vb_register_mul_uint32_negloop(_, _, _, _, _, _)
vb_register_mul_uint32_negloop(r, i, n, a, c1, c2) ==
    LET Store(t1, a2, t4) ==
            vb_register_mul_uint32_negloop([r EXCEPT ![i] = UTrunc(t4, 4)], i + 1, n,
                UShr32(a2), NegateCarry(c1, t1), NegateCarry(c2, t4))
        Renegate(t1, a2) ==
            Store(t1, a2, UAdd(UExt(UNot(UTrunc(a2, 4)), 8), c2))
        Multiply(t1) ==
            Renegate(t1, UAdd(a, UMul(UExt(UTrunc(t1, 4), 8), UExt(n, 8))))
    IN  After(<<r, a, c1, c2>>,
              IF i >= VB_MAX_WORDS THEN <<r, a>>
              ELSE Multiply(UAdd(UExt(UNot(r[i]), 8), c1)))

RECURSIVE vb_register_mul_uint32_posloop(_, _, _, _)
vb_register_mul_uint32_posloop(r, i, n, a) ==
    LET Store(a2) ==
            vb_register_mul_uint32_posloop([r EXCEPT ![i] = UTrunc(a2, 4)],
                                           i + 1, n, UShr32(a2))
    IN  After(<<r, a>>,
              IF i >= VB_MAX_WORDS THEN r
              ELSE Store(UAdd(a, UMul(UExt(r[i], 8), UExt(n, 8)))))

vb_register_mul_uint32(r, n) ==
    LET Checked(r2) ==
            IF ~VB_IS_NEGATIVE(r2) THEN vb_overflow(r2) ELSE Returned(r2, 0)
        Negative(r2, a) ==
            IF ~UIsZero(a)
            THEN IF a # U64(1) THEN vb_overflow(r2)
                 ELSE IF \E i \in 0..VB_LAST_WORD : ~UIsZero(r2[i])
                      THEN vb_overflow(r2)
                 ELSE Checked([r2 EXCEPT ![VB_LAST_WORD] = W(128, 0, 0, 0)])
            ELSE Checked(r2)
        NegativeLoop(l) == Negative(l[1], l[2])
        Positive(r2) ==
            IF VB_IS_NEGATIVE(r2) THEN vb_overflow(r2) ELSE Returned(r2, 0)
    IN  IF n = U32(1) THEN Returned(r, 0)
        ELSE IF UIsZero(n) THEN Returned(ZeroRegister, 0)
        ELSE IF VB_IS_NEGATIVE(r)
        THEN NegativeLoop(vb_register_mul_uint32_negloop(r, 0, n, U64(0), U64(1), U64(1)))
        ELSE Positive(vb_register_mul_uint32_posloop(r, 0, n, U64(0)))

-----------------------------------------------------------------------------
(* varlena Datums: the encoded values *)

\* offsetof(varattrib_1b, va_data)
hdr_bytes == 1

\* the one header byte SET_VARSIZE_SHORT(ptr, len) stores
SET_VARSIZE_SHORT(len) ==
    IF bigendian THEN (128 + len) % 256 ELSE (2 * len + 1) % 256

\* VARSIZE_ANY(d) and VARSIZE_ANY_EXHDR(d) of a Datum with a one-byte header
VARSIZE_ANY(d) == d.varsize
VARSIZE_ANY_EXHDR(d) == d.varsize - hdr_bytes

\* VARDATA_ANY(d)[i].  Index -1 is the header byte, which lies just before the
\* data; an index past the bytes stored is memory the Datum does not own, whose
\* content g is whatever the allocator left there.
VARDATA_ANY(d, i, g) ==
    IF i = -1 THEN SET_VARSIZE_SHORT(d.varsize)
    ELSE IF 0 <= i /\ i < Len(d.data) THEN d.data[i + 1]
    ELSE g

\* the payload: the bytes the header says the value has
Payload(d) == SubSeq(d.data, 1, VARSIZE_ANY_EXHDR(d))

vb_register_in(d) ==
    LET length == VARSIZE_ANY_EXHDR(d)
        pad    == IF VARDATA_ANY(d, length - 1, 0) >= 128 THEN 255 ELSE 0
    IN  Fcn([k \in 0..VB_LAST_WORD |->
            Tup([b \in 1..4 |-> LET i == 4 * k + (b - 1)
                                IN  IF i < length THEN VARDATA_ANY(d, i, 0) ELSE pad])])

\* the index at which the scan from word `i` down to word `low` stops: the first
\* word that is not `skip`, or low - 1 (low, for the negative branch's i > 0)
RECURSIVE vb_register_out_scan(_, _, _, _)
vb_register_out_scan(r, i, low, skip) ==
    IF i < low THEN i
    ELSE IF r[i] # skip THEN i
    ELSE vb_register_out_scan(r, i - 1, low, skip)

vb_register_out_bytes(r) ==
    LET Negative(i) ==
            (4 * i) +
            (IF UGe(r[i], W(255, 255, 255, 128)) THEN 1
             ELSE IF UGe(r[i], W(255, 255, 128, 0)) THEN 2
             ELSE IF UGe(r[i], W(255, 128, 0, 0)) THEN 3
             ELSE IF UGe(r[i], W(128, 0, 0, 0)) THEN 4
             ELSE 5)
        Positive(i) ==
            IF i = -1 THEN 0
            ELSE (4 * i) +
                 (IF UGt(r[i], W(0, 127, 255, 255)) THEN 4
                  ELSE IF UGt(r[i], W(0, 0, 127, 255)) THEN 3
                  ELSE IF UGt(r[i], W(0, 0, 0, 127)) THEN 2
                  ELSE IF UGt(r[i], W(0, 0, 0, 0)) THEN 1
                  ELSE 0)
    IN  IF VB_IS_NEGATIVE(r)
        THEN Negative(vb_register_out_scan(r, VB_LAST_WORD, 1, W(255, 255, 255, 255)))
        ELSE Positive(vb_register_out_scan(r, VB_LAST_WORD, 0, W(0, 0, 0, 0)))

vb_register_out(r) ==
    LET Copy(bytes) ==
            [varsize |-> hdr_bytes + bytes,
             data    |-> Tup([i \in 1..bytes |-> r[(i - 1) \div 4][((i - 1) % 4) + 1]])]
    IN  Copy(vb_register_out_bytes(r))

\* the loop over the bytes below the high byte: alen is the index last compared
RECURSIVE compare_varint_loop(_, _, _)
compare_varint_loop(a, b, alen) ==
    IF alen >= 0
    THEN LET k  == alen - 1
             x  == VARDATA_ANY(a, k, 0)
             y  == VARDATA_ANY(b, k, 0)
         IN  IF x # y THEN (IF x > y THEN 1 ELSE -1)
             ELSE compare_varint_loop(a, b, k)
    ELSE 0

compare_varint(a, b) ==
    LET alen == VARSIZE_ANY_EXHDR(a)
        blen == VARSIZE_ANY_EXHDR(b)
    IN  IF alen # blen
        THEN IF alen > blen
             THEN (IF VARDATA_ANY(a, alen - 1, 0) >= 128 THEN -1 ELSE 1)
             ELSE (IF VARDATA_ANY(b, blen - 1, 0) >= 128 THEN 1 ELSE -1)
        ELSE LET aa == (VARDATA_ANY(a, alen - 1, 0) + 128) % 256
                 bb == (VARDATA_ANY(b, alen - 1, 0) + 128) % 256
             IN  IF aa # bb THEN (IF aa > bb THEN 1 ELSE -1)
                 ELSE compare_varint_loop(a, b, alen - 1)

-----------------------------------------------------------------------------
(* the entry points *)

\* s[i] of a C string: the NUL follows the last character
Ch(s, i) == IF i < Len(s) THEN s[i + 1] ELSE 0

\* the digits counted from s[p] on: up to the first character that is no digit
varint_in_count(s, p) ==
    LET stop == {t \in p..Len(s) : Ch(s, t) < 48 \/ Ch(s, t) > 57}
    IN  (CHOOSE t \in stop : \A u \in stop : t <= u) - p

\* the iterations of the scan loop from s[t] up to the one that merges the
\* accumulator into the register: <<accumulator, tenspower, t>> at that merge
RECURSIVE varint_in_group(_, _, _, _)
varint_in_group(s, t, tenspower, accumulator) ==
    IF tenspower * 10 = 1000000000 \/ Ch(s, t + 1) = 0
    THEN <<(accumulator * 10) + (Ch(s, t) - 48), tenspower * 10, t>>
    ELSE varint_in_group(s, t + 1, tenspower * 10,
                         (accumulator * 10) + (Ch(s, t) - 48))

\* the scan loop from one merge to the next
RECURSIVE varint_in_loop(_, _, _, _)
varint_in_loop(s, t, isneg, r) ==
    LET Merged(grp, x) ==
            IF x.err # "none" THEN x
            ELSE varint_in_loop(s, grp[3] + 1, isneg, x.r)
        Multiplied(grp, m) ==
            IF m.err # "none" THEN m
            ELSE Merged(grp, IF isneg THEN vb_register_sub_uint32(m.r, U32(grp[1]))
                             ELSE vb_register_add_uint32(m.r, U32(grp[1])))
        Group(grp) == Multiplied(grp, vb_register_mul_uint32(r, U32(grp[2])))
    IN  After(r, IF Ch(s, t) = 0 THEN Returned(r, 0)
                 ELSE Group(varint_in_group(s, t, 1, 0)))

\* varint_in up to its last line: the register the text was scanned into
varint_in_register(s) ==
    LET Scan(p, plen) ==
            IF Ch(s, p + plen) # 0 \/ plen = 0 THEN Raised("syntax", ZeroRegister)
            ELSE varint_in_loop(s, p, Ch(s, 0) = 45, ZeroRegister)
        Skip(p) == Scan(p, varint_in_count(s, p))
    IN  Skip(IF Ch(s, 0) = 43 \/ Ch(s, 0) = 45 THEN 1 ELSE 0)

NoDatum == [varsize |-> hdr_bytes, data |-> <<>>]

\* what an entry point hands back: the error raised if any, the register it
\* held when it returned, and its result in the field of the result's type
Result(x, d, v) == [err |-> x.err, reg |-> x.r, datum |-> d, val |-> v]

\* an entry point that ends in vb_register_out, after the steps x
Encoded(x) ==
    Result(x, IF x.err = "none" THEN vb_register_out(x.r) ELSE NoDatum, <<>>)

varint_in(s) == Encoded(varint_in_register(s))

RECURSIVE varint_out_emit(_, _, _)
varint_out_emit(remainder, i, e) ==
    IF i >= 9 THEN e
    ELSE varint_out_emit(remainder \div 10, i + 1, <<48 + (remainder % 10)>> \o e)

\* the digit loop: e is the text from *e to the NUL
RECURSIVE varint_out_loop(_, _)
varint_out_loop(r, e) ==
    LET Group(d) ==
            IF UIsZero(d.ret) /\ \A i \in 0..VB_LAST_WORD : UIsZero(d.r[i]) THEN e
            ELSE varint_out_loop(d.r, varint_out_emit(UToNat(d.ret), 0, e))
    IN  After(<<r, e>>, Group(vb_register_divmod_uint32(r, U32(1000000000))))

\* varint_out_strip without its loop: the leading zeros stay
varint_out_strip_none(e) == e

RECURSIVE varint_out_strip(_)
varint_out_strip(e) ==
    IF Ch(e, 0) = 48 THEN varint_out_strip(Tail(e)) ELSE e

\* varint_out after vb_register_in: the text of the register
varint_out_register(r) ==
    LET Signed(e) == IF VB_IS_NEGATIVE(r) THEN <<45>> \o e ELSE e
        Digits(e) == Signed(IF Len(e) = 0 THEN <<48>> ELSE varint_out_strip(e))
    IN  Digits(varint_out_loop(r, <<>>))

varint_out(d) ==
    LET Loaded(r) == Result(Returned(r, 0), NoDatum, varint_out_register(r))
    IN  Loaded(vb_register_in(d))

\* m is the message left in the buffer: pq_getmsgint(buf, 1) takes its first
\* byte and pq_copymsgbytes the len bytes after it; both raise a protocol
\* error when the message holds too few bytes.  len is unsigned, so for
\* len = 0 the index len - 1 is UINT_MAX and data[len - 1] is read 4 GB past
\* the Datum: g is what is found there, -1 when the address is not mapped.
varint_recv(m, g) ==
    IF Len(m) < 1 THEN Result(Raised("protocol", ZeroRegister), NoDatum, <<>>)
    ELSE LET len == m[1]
         IN  IF len > 4 * VB_MAX_WORDS
             THEN Result(Raised("malformed", ZeroRegister), NoDatum, <<>>)
             ELSE IF Len(m) - 1 < len
             THEN Result(Raised("protocol", ZeroRegister), NoDatum, <<>>)
             ELSE LET result == [varsize |-> len, data |-> SubSeq(m, 2, 1 + len)]
                      last   == IF len = 0 THEN g
                                ELSE VARDATA_ANY(result, len - 1, g)
                  IN  IF last = -1
                      THEN Result(Raised("crash", ZeroRegister), NoDatum, <<>>)
                      ELSE IF last = 0
                      THEN Result(Raised("malformed", ZeroRegister), NoDatum, <<>>)
                      ELSE Result(Returned(ZeroRegister, 0), result, <<>>)

\* the bytes put in the message: g is the content of the byte after the Datum
varint_send(v, g) ==
    Result(Returned(ZeroRegister, 0), NoDatum,
           <<VARSIZE_ANY(v) % 256>> \o
           Tup([i \in 1..VARSIZE_ANY(v) |-> VARDATA_ANY(v, i - 1, g)]))

\* make_varint up to its last line: the register built from an int64
make_varint_register(arg) ==
    Fcn([i \in 0..VB_LAST_WORD |->
        IF i = 0 THEN UTrunc(arg, 4)
        ELSE IF i = 1 THEN UTrunc(SShr32(arg), 4)
        ELSE IF arg[8] >= 128 THEN W(255, 255, 255, 255) ELSE W(0, 0, 0, 0)])

make_varint(arg) == Encoded(Returned(make_varint_register(arg), 0))

\* PG_GETARG_INT16 and PG_GETARG_INT32 of a Datum passed by value (8 bytes)
PG_GETARG_INT16(x) == UTrunc(x, 2)
PG_GETARG_INT32(x) == UTrunc(x, 4)

int2_varint(x) == make_varint(SExt(PG_GETARG_INT16(x), 8))
int4_varint(x) == make_varint(SExt(PG_GETARG_INT32(x), 8))
int8_varint(x) == make_varint(SExt(PG_GETARG_INT32(x), 8))

\* flatten_register without the checks of the words above v
flatten_register_low(r) == Returned(r, r[0] \o r[1])

\* flatten_varint after vb_register_in: v is returned
flatten_register(r) ==
    LET Flat(v) ==
            IF VB_IS_NEGATIVE(r)
            THEN IF v[8] < 128 THEN vb_overflow(r)
                 ELSE IF \E i \in 2..VB_LAST_WORD : r[i] # W(255, 255, 255, 255)
                      THEN vb_overflow(r)
                 ELSE Returned(r, v)
            ELSE IF v[8] >= 128 THEN vb_overflow(r)
                 ELSE IF \E i \in 2..VB_LAST_WORD : r[i] # W(0, 0, 0, 0)
                      THEN vb_overflow(r)
                 ELSE Returned(r, v)
    IN  Flat(r[0] \o r[1])

flatten_varint(d) == flatten_register(vb_register_in(d))

PG_INT16_MAX == <<255, 127>>
PG_INT16_MIN == <<0, 128>>
PG_INT32_MIN == W(128, 0, 0, 0)

varint_int2(d) ==
    LET Flat(f) ==
            IF f.err # "none" THEN Result(f, NoDatum, <<>>)
            ELSE IF SGt(f.ret, SExt(PG_INT16_MAX, 8)) \/ SLt(f.ret, SExt(PG_INT16_MIN, 8))
            THEN Result(vb_overflow(f.r), NoDatum, <<>>)
            ELSE Result(f, NoDatum, UTrunc(f.ret, 2))
    IN  Flat(flatten_varint(d))

varint_int4(d) ==
    LET Flat(f) ==
            IF f.err # "none" THEN Result(f, NoDatum, <<>>)
            ELSE IF SGt(f.ret, SExt(PG_INT32_MAX, 8)) \/ SLt(f.ret, SExt(PG_INT32_MIN, 8))
            THEN Result(vb_overflow(f.r), NoDatum, <<>>)
            ELSE Result(f, NoDatum, UTrunc(f.ret, 4))
    IN  Flat(flatten_varint(d))

varint_int8(d) ==
    LET Flat(f) ==
            IF f.err # "none" THEN Result(f, NoDatum, <<>>)
            ELSE Result(f, NoDatum, f.ret)
    IN  Flat(flatten_varint(d))

\* varint_uminus between vb_register_in and vb_register_out
varint_uminus_register(r) ==
    LET Negated(n) == IF n.ret # 0 THEN vb_overflow(n.r) ELSE n
    IN  Negated(vb_register_negate(r))

varint_uminus(d) == Encoded(varint_uminus_register(vb_register_in(d)))

RECURSIVE varint_add_loop(_, _, _, _)
varint_add_loop(x, y, i, c) ==
    LET Store(c2) ==
            varint_add_loop([x EXCEPT ![i] = UTrunc(c2, 4)], y, i + 1, UShr32(c2))
    IN  After(<<x, c>>,
              IF i >= VB_MAX_WORDS THEN x
              ELSE Store(UAdd(UAdd(c, UExt(x[i], 8)), UExt(y[i], 8))))

\* varint_add_registers with the test of two non-negative inputs left out
varint_add_registers_half(x, y) ==
    LET Summed(sum) ==
            IF VB_IS_NEGATIVE(x) /\ VB_IS_NEGATIVE(y) /\ ~VB_IS_NEGATIVE(sum)
            THEN vb_overflow(sum)
            ELSE Returned(sum, 0)
    IN  Summed(varint_add_loop(x, y, 0, U64(0)))

\* varint_add between vb_register_in and vb_register_out
varint_add_registers(x, y) ==
    LET Summed(sum) ==
            IF VB_IS_NEGATIVE(x) /\ VB_IS_NEGATIVE(y) /\ ~VB_IS_NEGATIVE(sum)
            THEN vb_overflow(sum)
            ELSE IF ~VB_IS_NEGATIVE(x) /\ ~VB_IS_NEGATIVE(y) /\ VB_IS_NEGATIVE(sum)
            THEN vb_overflow(sum)
            ELSE Returned(sum, 0)
    IN  Summed(varint_add_loop(x, y, 0, U64(0)))

varint_add(a, b) == Encoded(varint_add_registers(vb_register_in(a), vb_register_in(b)))

\* c is an int64: c >>= 32 is the arithmetic shift every supported compiler gives
RECURSIVE varint_sub_loop(_, _, _, _)
varint_sub_loop(x, y, i, c) ==
    LET Store(c2) ==
            varint_sub_loop([x EXCEPT ![i] = UTrunc(c2, 4)], y, i + 1, SShr32(c2))
    IN  After(<<x, c>>,
              IF i >= VB_MAX_WORDS THEN x
              ELSE Store(USub(UAdd(c, UExt(x[i], 8)), UExt(y[i], 8))))

\* varint_sub between vb_register_in and vb_register_out
varint_sub_registers(x, y) ==
    LET Subtracted(diff) ==
            IF VB_IS_NEGATIVE(x) /\ ~VB_IS_NEGATIVE(y) /\ ~VB_IS_NEGATIVE(diff)
            THEN vb_overflow(diff)
            ELSE IF ~VB_IS_NEGATIVE(x) /\ VB_IS_NEGATIVE(y) /\ VB_IS_NEGATIVE(diff)
            THEN vb_overflow(diff)
            ELSE Returned(diff, 0)
    IN  Subtracted(varint_sub_loop(x, y, 0, U64(0)))

varint_sub(a, b) == Encoded(varint_sub_registers(vb_register_in(a), vb_register_in(b)))

varint_cmp(a, b) ==
    Result(Returned(ZeroRegister, 0), NoDatum, compare_varint(a, b))

-----------------------------------------------------------------------------
(* 256-bit integers, as the claims speak of them: 32 bytes, little-endian,  *)
(* two's complement; wider tuples hold exact sums and parsed texts          *)

RegisterBytes == 4 * VB_MAX_WORDS

\* the value a register holds, and the register that holds a value
RegBytes(r) == r[0] \o r[1] \o r[2] \o r[3] \o r[4] \o r[5] \o r[6] \o r[7]
BytesReg(x) == Fcn([k \in 0..VB_LAST_WORD |-> SubSeq(x, (4 * k) + 1, (4 * k) + 4)])

MinValue == Tup([i \in 1..RegisterBytes |-> IF i = RegisterBytes THEN 128 ELSE 0])
MaxValue == Tup([i \in 1..RegisterBytes |-> IF i = RegisterBytes THEN 127 ELSE 255])

\* x is what sign extension makes of its low n bytes (of nothing: zero)
FitsBytes(x, n) ==
    IF n = 0 THEN UIsZero(x) ELSE SExt(SubSeq(x, 1, n), Len(x)) = x

\* the least number of bytes that hold x (what n bytes hold, n + 1 hold too)
MinLen(x) == CHOOSE n \in 0..Len(x) :
                 FitsBytes(x, n) /\ (n = 0 \/ ~FitsBytes(x, n - 1))

\* the value of an in-range exact result held in more than 32 bytes
InRange(w) == FitsBytes(w, RegisterBytes)

ExactSum(x, y)  == UAdd(SExt(x, RegisterBytes + 1), SExt(y, RegisterBytes + 1))
ExactDiff(x, y) == USub(SExt(x, RegisterBytes + 1), SExt(y, RegisterBytes + 1))
ExactNeg(x)     == USub(UZero(RegisterBytes + 1), SExt(x, RegisterBytes + 1))

\* x * n and |x| as integers, for a register's x and a uint32 n
ExactProduct(x, n) == UMul(SExt(x, RegisterBytes + 8), UExt(n, RegisterBytes + 8))
Magnitude256(x) ==
    IF x[Len(x)] >= 128 THEN USub(UZero(RegisterBytes + 8), SExt(x, RegisterBytes + 8))
    ELSE UExt(x, RegisterBytes + 8)

\* the sign of the signed comparison of x and y
SignedOrder(x, y) == IF SLt(x, y) THEN -1 ELSE IF SGt(x, y) THEN 1 ELSE 0

\* 2^k, and 2^k + d, as n-byte integers
Pow2(k, n) == Tup([i \in 1..n |-> IF i = (k \div 8) + 1 THEN 2 ^ (k % 8) ELSE 0])
Near(k, d, n) ==
    IF d >= 0 THEN UAdd(Pow2(k, n), UFromNat(d, n))
    ELSE USub(Pow2(k, n), UFromNat(-d, n))

\* the width in which the number a text denotes is computed: wide enough for
\* every text of the model
WideBytes == RegisterBytes + 8

\* s is [+-]?[0-9]+
IsInteger(s) ==
    LET Digits(p) == Len(s) > p /\ \A i \in (p + 1)..Len(s) : s[i] \in 48..57
    IN  Digits(IF Len(s) > 0 /\ s[1] \in {43, 45} THEN 1 ELSE 0)

\* the number the digits s[lo..hi] denote, for at most nine digits
RECURSIVE SmallNumber(_, _, _)
SmallNumber(s, lo, hi) ==
    IF hi < lo THEN 0 ELSE (10 * SmallNumber(s, lo, hi - 1)) + (s[hi] - 48)

\* the number the digits s[i..Len(s)] denote after those that gave acc, taken
\* eight digits at a time
RECURSIVE Magnitude(_, _, _)
Magnitude(s, i, acc) ==
    LET Block(j) ==
            Magnitude(s, j + 1,
                      UAdd(UMul(acc, UFromNat(10 ^ ((j - i) + 1), WideBytes)),
                           UFromNat(SmallNumber(s, i, j), WideBytes)))
    IN  After(acc, IF i > Len(s) THEN acc
                   ELSE Block(IF i + 7 < Len(s) THEN i + 7 ELSE Len(s)))

\* the magnitude of the integer s denotes, and whether it has a minus sign
DenotedMagnitude(s) ==
    Magnitude(s, IF s[1] \in {43, 45} THEN 2 ELSE 1, UZero(WideBytes))
DenotedNegative(s) == s[1] = 45

\* the integer s denotes lies in [-2^255, 2^255 - 1]
DenotedInRange(s) ==
    LET Within(m) ==
            \/ ULt(m, Pow2(8 * RegisterBytes - 1, WideBytes))
            \/ DenotedNegative(s) /\ m = Pow2(8 * RegisterBytes - 1, WideBytes)
    IN  Within(DenotedMagnitude(s))

\* the integer s denotes, when it lies in the range
DenotedValue(s) ==
    IF DenotedNegative(s)
    THEN USub(UZero(RegisterBytes), UTrunc(DenotedMagnitude(s), RegisterBytes))
    ELSE UTrunc(DenotedMagnitude(s), RegisterBytes)

\* t is the decimal representation of an integer: '-' before a negative one,
\* no zero before the first digit, "0" for zero
IsDecimal(t) ==
    LET Plain(d) ==
            /\ Len(d) > 0
            /\ \A i \in 1..Len(d) : d[i] \in 48..57
            /\ (d[1] # 48 \/ (Len(d) = 1 /\ Len(t) = 1))
    IN  Len(t) > 0 /\ Plain(IF t[1] = 45 THEN Tail(t) ELSE t)

\* the bytes b are an encoding in the fewest bytes
CanonicalBytes(b) ==
    \/ Len(b) = 0
    \/ Len(b) <= RegisterBytes /\ Len(b) = MinLen(SExt(b, RegisterBytes))

\* the sign of a comparator's result
Sign(c) == IF c < 0 THEN -1 ELSE IF c > 0 THEN 1 ELSE 0

-----------------------------------------------------------------------------
(* the inputs the entry points are run on *)

\* how far from a power of two the values go
MaxDelta == 1
\* how many redundant sign bytes a stored value carries at most
MaxPad == 1
\* how many zeros lead a text at most
MaxLeadingZeros == 1
\* how many zeros follow the first digit of a text at most
MaxTrailingZeros == 78

\* the n-byte values around +2^k and -2^k for the exponents E
Values(E, n) ==
    UNION {{Near(k, d, n), USub(UZero(n), Near(k, d, n))} :
           k \in E, d \in (-MaxDelta)..MaxDelta}

\* the bit positions below `bits` at which the byte count of a value changes
\* (the sign bit of each byte), and bit 0, around which zero lies
ByteEdges(bits) == {k \in 0..(bits - 1) : k = 0 \/ k % 8 = 7}

\* the Datum holding x in n bytes
Stored(x, n) == [varsize |-> hdr_bytes + n, data |-> SubSeq(x, 1, n)]

\* the Datums of x: in its fewest bytes (vb_register_out writes those of
\* RegisterBytes bytes, varint_recv accepts the shorter ones) and with
\* redundant sign bytes after them (varint_recv accepts those too)
DatumsOf(x) ==
    LET Padded(least) ==
            {Stored(x, n) : n \in {m \in least..(least + MaxPad) :
                                      m = least \/ m < RegisterBytes}}
    IN  Padded(MinLen(x))

\* the stored values one entry point is run on
ValueDatums == UNION {DatumsOf(x) : x \in Values(ByteEdges(8 * RegisterBytes), RegisterBytes)}

\* the stored values two are run on, each in its fewest bytes
PairEdges == {0, 7, 31, 63, 254, 255}
PairDatums == {Stored(x, MinLen(x)) : x \in Values(PairEdges, RegisterBytes)}

\* the 8-byte Datums the conversions from int2, int4 and int8 are run on
FixedDatums == Values(ByteEdges(64), 8)

\* a value of the C type of n bytes, passed in a Datum
IsFixed(x, n) == SExt(UTrunc(x, n), 8) = x

\* the digits of 2^255
Pow255Digits ==
    <<5, 7, 8, 9, 6, 0, 4, 4, 6, 1, 8, 6, 5, 8, 0, 9, 7, 7, 1, 1, 7, 8, 5, 4, 9, 2,
      5, 0, 4, 3, 4, 3, 9, 5, 3, 9, 2, 6, 6, 3, 4, 9, 9, 2, 3, 3, 2, 8, 2, 0, 2, 8,
      2, 0, 1, 9, 7, 2, 8, 7, 9, 2, 0, 0, 3, 9, 5, 6, 5, 6, 4, 8, 1, 9, 9, 6, 8>>

Zeros(k) == Tup([i \in 1..k |-> 48])

\* the digit strings: a digit and zeros after it
LongTexts == {<<48 + m>> \o Zeros(t) : m \in 1..9, t \in 0..MaxTrailingZeros}

\* the digit strings at the ends of the range, with zeros before them: 0, 1,
\* 2^255 - 1, 2^255 and 2^255 + 1
EdgeTexts ==
    {Zeros(z) \o t :
     z \in 0..MaxLeadingZeros,
     t \in {<<48>>, <<49>>} \cup
           {Tup([i \in 1..Len(Pow255Digits) |->
                    48 + (IF i = Len(Pow255Digits) THEN l ELSE Pow255Digits[i])]) :
            l \in 7..9}}

\* the texts varint_in is run on: the digit strings with and without a sign,
\* and some texts that are no integers
Texts ==
    {s \o t : s \in {<<>>, <<43>>, <<45>>}, t \in LongTexts \cup EdgeTexts}
    \cup {<<>>, <<45>>, <<43>>, <<49, 97>>, <<45, 45, 49>>, <<49, 32>>, <<120>>}

\* the bytes at the top of a message that decide whether it is accepted
EdgeBytes == {0, 1, 127, 128, 255}

\* the messages varint_recv is run on: a length byte and that many bytes after
\* it, for every length up to one more than a register holds, and some that
\* end too early
Frames ==
    {<<len>> \o Tup([i \in 1..len |-> IF i = len THEN p[1]
                                     ELSE IF i = len - 1 THEN p[2] ELSE 1]) :
     len \in 0..(RegisterBytes + 1), p \in EdgeBytes \X EdgeBytes}
    \cup {<<>>, <<2, 1>>, <<RegisterBytes + 1>>}

\* what lies at data[UINT_MAX] when varint_recv tests it against 0: a zero
\* byte or another one
SlackBytes == {0, 1, 128, 255}

\* the registers the operations with a uint32 are run on, each stored in its
\* fewest bytes: around 2^k where a product by a factor below reaches the top
\* of the register, and around the small values
SmallEdges == {0, 3, 31, 32, 63, 222, 223, 224, 225, 252, 253, 254, 255}
SmallDatums == {Stored(x, MinLen(x)) : x \in Values(SmallEdges, RegisterBytes)}

\* the values of the uint32 argument: 0, 1, small ones, the powers of ten
\* varint_in and varint_out pass, and the ends of the type
SmallFactors ==
    {U32(v) : v \in {0, 1, 2, 3, 4, 7, 10, 1000, 65536, 1000000000}}
    \cup {W(127, 255, 255, 255), W(128, 0, 0, 0), W(255, 255, 255, 255)}

-----------------------------------------------------------------------------
(* the calls: a behaviour is one call of one entry point on the inputs *)

NoResult == [err |-> "none", reg |-> ZeroRegister, datum |-> NoDatum, val |-> <<>>]

\* no entry point has run yet
Idle == op = "init"

\* the register the Datum da is loaded into, and the one db is
ra == vb_register_in(da)
rb == vb_register_in(db)

(* the entry points of one stored value *)

InitValue ==
    /\ bigendian \in BOOLEAN
    /\ da \in ValueDatums
    /\ db = NoDatum
    /\ text = <<>>
    /\ wire = <<>>
    /\ fixed = U64(0)
    /\ op = "init"
    /\ out = NoResult

\* vb_register_out of the loaded register, and vb_register_in of what it wrote
Encode ==
    /\ Idle
    /\ op' = "encode"
    /\ out' = (LET Decoded(d) == Result(Returned(vb_register_in(d), 0), d, <<>>)
               IN  Decoded(vb_register_out(ra)))
    /\ UNCHANGED inputs

Negate ==
    /\ Idle
    /\ op' = "uminus"
    /\ out' = varint_uminus(da)
    /\ UNCHANGED inputs

FormatDecimal ==
    /\ Idle
    /\ op' = "out"
    /\ out' = varint_out(da)
    /\ UNCHANGED inputs

ToFixed16 ==
    /\ Idle
    /\ op' = "int2"
    /\ out' = varint_int2(da)
    /\ UNCHANGED inputs

ToFixed32 ==
    /\ Idle
    /\ op' = "int4"
    /\ out' = varint_int4(da)
    /\ UNCHANGED inputs

ToFixed64 ==
    /\ Idle
    /\ op' = "int8"
    /\ out' = varint_int8(da)
    /\ UNCHANGED inputs

\* the byte after the value, which varint_send copies into the message, is
\* whatever the memory there holds
Send ==
    /\ Idle
    /\ op' = "send"
    /\ \E g \in Byte : out' = varint_send(da, g)
    /\ UNCHANGED inputs

NextValue ==
    \/ Encode
    \/ Negate
    \/ FormatDecimal
    \/ ToFixed16
    \/ ToFixed32
    \/ ToFixed64
    \/ Send

SpecValue == InitValue /\ [][NextValue]_vars

(* the entry points of two stored values *)

InitPair ==
    /\ bigendian \in BOOLEAN
    /\ da \in PairDatums
    /\ db \in PairDatums
    /\ text = <<>>
    /\ wire = <<>>
    /\ fixed = U64(0)
    /\ op = "init"
    /\ out = NoResult

\* varint_cmp of the two registers as vb_register_out writes them
Compare ==
    /\ Idle
    /\ op' = "cmp"
    /\ out' = varint_cmp(vb_register_out(ra), vb_register_out(rb))
    /\ UNCHANGED inputs

Add ==
    /\ Idle
    /\ op' = "add"
    /\ out' = varint_add(da, db)
    /\ UNCHANGED inputs

Subtract ==
    /\ Idle
    /\ op' = "sub"
    /\ out' = varint_sub(da, db)
    /\ UNCHANGED inputs

NextPair ==
    \/ Compare
    \/ Add
    \/ Subtract

SpecPair == InitPair /\ [][NextPair]_vars

(* the entry point of a text *)

InitText ==
    /\ bigendian \in BOOLEAN
    /\ da = NoDatum
    /\ db = NoDatum
    /\ text \in Texts
    /\ wire = <<>>
    /\ fixed = U64(0)
    /\ op = "init"
    /\ out = NoResult

ParseDecimal ==
    /\ Idle
    /\ op' = "in"
    /\ out' = varint_in(text)
    /\ UNCHANGED inputs

NextText == ParseDecimal

SpecText == InitText /\ [][NextText]_vars

(* the entry points of a fixed-width integer *)

InitFixed ==
    /\ bigendian \in BOOLEAN
    /\ da = NoDatum
    /\ db = NoDatum
    /\ text = <<>>
    /\ wire = <<>>
    /\ fixed \in FixedDatums
    /\ op = "init"
    /\ out = NoResult

\* the caller passes an int16
FromFixed16 ==
    /\ Idle
    /\ IsFixed(fixed, 2)
    /\ op' = "int2_varint"
    /\ out' = int2_varint(fixed)
    /\ UNCHANGED inputs

\* the caller passes an int32
FromFixed32 ==
    /\ Idle
    /\ IsFixed(fixed, 4)
    /\ op' = "int4_varint"
    /\ out' = int4_varint(fixed)
    /\ UNCHANGED inputs

\* the caller passes an int64
FromFixed64 ==
    /\ Idle
    /\ op' = "int8_varint"
    /\ out' = int8_varint(fixed)
    /\ UNCHANGED inputs

NextFixed ==
    \/ FromFixed16
    \/ FromFixed32
    \/ FromFixed64

SpecFixed == InitFixed /\ [][NextFixed]_vars

(* the entry point of a message *)

InitWire ==
    /\ bigendian \in BOOLEAN
    /\ da = NoDatum
    /\ db = NoDatum
    /\ text = <<>>
    /\ wire \in Frames
    /\ fixed = U64(0)
    /\ op = "init"
    /\ out = NoResult

\* what lies at data[UINT_MAX] is a byte or no memory at all
Receive ==
    /\ Idle
    /\ op' = "recv"
    /\ \E g \in SlackBytes \cup {-1} : out' = varint_recv(wire, g)
    /\ UNCHANGED inputs

NextWire == Receive

SpecWire == InitWire /\ [][NextWire]_vars

(* the operations of a register and a uint32 *)

\* the uint32 argument n, passed in the low half of `fixed`
n32 == UTrunc(fixed, 4)

InitSmall ==
    /\ bigendian \in BOOLEAN
    /\ da \in SmallDatums
    /\ db = NoDatum
    /\ text = <<>>
    /\ wire = <<>>
    /\ fixed \in {UExt(n, 8) : n \in SmallFactors}
    /\ op = "init"
    /\ out = NoResult

\* vb_register_mul_uint32 on the loaded register: val is empty, it returns void
MultiplySmall ==
    /\ Idle
    /\ op' = "mul"
    /\ out' = Result(vb_register_mul_uint32(ra, n32), NoDatum, <<>>)
    /\ UNCHANGED inputs

\* vb_register_divmod_uint32 on the loaded register: val is what it returns
DivModSmall ==
    /\ Idle
    /\ op' = "divmod"
    /\ out' = (LET Called(x) == Result(x, NoDatum, x.ret)
               IN  Called(vb_register_divmod_uint32(ra, n32)))
    /\ UNCHANGED inputs

NextSmall ==
    \/ MultiplySmall
    \/ DivModSmall

SpecSmall == InitSmall /\ [][NextSmall]_vars

(* the bytes read through VARDATA_ANY *)

\* vb_register_in: the indices of input[] it reads
vb_register_in_reads(d) ==
    LET length == VARSIZE_ANY_EXHDR(d)
    IN  {length - 1} \cup {i \in 0..((4 * VB_MAX_WORDS) - 1) : i < length}

\* compare_varint's while loop: the indices read, `seen` those read before it
RECURSIVE compare_varint_loop_reads(_, _, _, _)
compare_varint_loop_reads(a, b, alen, seen) ==
    IF alen >= 0
    THEN LET k == alen - 1
         IN  IF VARDATA_ANY(a, k, 0) # VARDATA_ANY(b, k, 0) THEN seen \cup {k}
             ELSE compare_varint_loop_reads(a, b, k, seen \cup {k})
    ELSE seen

\* compare_varint: the indices of adata[] and of bdata[] it reads
compare_varint_reads(a, b) ==
    LET alen == VARSIZE_ANY_EXHDR(a)
        blen == VARSIZE_ANY_EXHDR(b)
        Both(S) == [a |-> S, b |-> S]
    IN  IF alen # blen
        THEN IF alen > blen THEN [a |-> {alen - 1}, b |-> {}]
             ELSE [a |-> {}, b |-> {blen - 1}]
        ELSE IF (VARDATA_ANY(a, alen - 1, 0) + 128) % 256
                    # (VARDATA_ANY(b, alen - 1, 0) + 128) % 256
             THEN Both({alen - 1})
             ELSE Both(compare_varint_loop_reads(a, b, alen - 1, {alen - 1}))

\* varint_recv: the indices of data[] it reads, as the unsigned they are
varint_recv_reads(m) ==
    IF Len(m) < 1 THEN {}
    ELSE IF m[1] > 4 * VB_MAX_WORDS \/ Len(m) - 1 < m[1] THEN {}
    ELSE {USub(U32(m[1]), U32(1))}

\* the result x of a call, with the indices the call read
Traced(x, reads) == [reads |-> reads] @@ x

InitReads == InitPair \/ InitWire

Decode ==
    /\ Idle
    /\ op' = "vb_register_in"
    /\ out' = Traced(Result(Returned(vb_register_in(da), 0), NoDatum, <<>>),
                     vb_register_in_reads(da))
    /\ UNCHANGED inputs

CompareStored ==
    /\ Idle
    /\ op' = "compare_varint"
    /\ out' = Traced(varint_cmp(da, db), compare_varint_reads(da, db))
    /\ UNCHANGED inputs

ReceiveStored ==
    /\ Idle
    /\ op' = "varint_recv"
    /\ \E g \in SlackBytes \cup {-1} :
           out' = Traced(varint_recv(wire, g), varint_recv_reads(wire))
    /\ UNCHANGED inputs

NextReads ==
    \/ Decode
    \/ CompareStored
    \/ ReceiveStored

SpecReads == InitReads /\ [][NextReads]_vars

-----------------------------------------------------------------------------
(* the claims *)

\* C1: what vb_register_out writes for a register r is the shortest byte
\* sequence, of 0..32 bytes and empty exactly when r is zero, that
\* vb_register_in loads as r again.
C1_EncodeShortestRoundTrip ==
    op = "encode" =>
        /\ VARSIZE_ANY_EXHDR(out.datum) \in 0..RegisterBytes
        /\ (VARSIZE_ANY_EXHDR(out.datum) = 0 <=> ra = ZeroRegister)
        /\ out.reg = ra
        /\ VARSIZE_ANY_EXHDR(out.datum) = MinLen(RegBytes(ra))

\* C2: compare_varint of what vb_register_out writes for the registers a and b
\* is negative, zero or positive exactly when a < b, a = b or a > b as signed
\* 256-bit integers.
C2_CompareIsSignedOrder ==
    op = "cmp" => Sign(out.val) = SignedOrder(RegBytes(ra), RegBytes(rb))

\* C3: varint_in of a text [+-]?[0-9]+ leaves the register holding the integer
\* the text denotes when that lies in [-2^255, 2^255 - 1], and raises the
\* range overflow when it does not.
C3_ParseExactOrOverflow ==
    (op = "in" /\ IsInteger(text)) =>
        IF DenotedInRange(text)
        THEN out.err = "none" /\ RegBytes(out.reg) = DenotedValue(text)
        ELSE out.err = "overflow"

\* C4: varint_uminus raises the overflow exactly for the register holding
\* -2^255; for every other register r, zero included, it raises nothing and
\* leaves the register holding -r.
C4_NegateOverflowsOnlyAtMinimum ==
    op = "uminus" =>
        /\ (out.err = "overflow" <=> RegBytes(ra) = MinValue)
        /\ RegBytes(ra) # MinValue =>
               /\ out.err = "none"
               /\ SExt(RegBytes(out.reg), RegisterBytes + 1) = ExactNeg(RegBytes(ra))

\* C5: varint_add and varint_sub raise the range overflow exactly when the
\* exact a + b (a - b) lies outside [-2^255, 2^255 - 1] and otherwise leave the
\* register holding exactly a + b (a - b); adding is commutative, and adding
\* the negated b is subtracting b whenever none of the steps overflows.
C5_AddSubtractExact ==
    /\ op = "add" =>
           /\ (out.err = "overflow" <=> ~InRange(ExactSum(RegBytes(ra), RegBytes(rb))))
           /\ InRange(ExactSum(RegBytes(ra), RegBytes(rb))) =>
                  /\ out.err = "none"
                  /\ SExt(RegBytes(out.reg), RegisterBytes + 1)
                         = ExactSum(RegBytes(ra), RegBytes(rb))
           /\ varint_add(db, da) = out
    /\ op = "sub" =>
           /\ (out.err = "overflow" <=> ~InRange(ExactDiff(RegBytes(ra), RegBytes(rb))))
           /\ InRange(ExactDiff(RegBytes(ra), RegBytes(rb))) =>
                  /\ out.err = "none"
                  /\ SExt(RegBytes(out.reg), RegisterBytes + 1)
                         = ExactDiff(RegBytes(ra), RegBytes(rb))
           /\ LET Sides(n, s) ==
                      (n.err = "none" /\ s.err = "none" /\ out.err = "none")
                          => s.r = out.reg
                  Negated(n) == Sides(n, varint_add_registers(ra, n.r))
              IN  Negated(varint_uminus_register(rb))

\* adding 1 to 2^255 - 1 overflowed
C5_Witness ==
    /\ op = "add"
    /\ RegBytes(ra) = MaxValue
    /\ RegBytes(rb) = Near(0, 0, RegisterBytes)
    /\ out.err = "overflow"

\* C6: the text varint_out writes for a register r is the decimal
\* representation of r ('-' exactly before a negative r, no leading zeros, "0"
\* for zero), and the scan of varint_in turns it into r again without error.
C6_FormatParseRoundTrip ==
    op = "out" =>
        /\ IsDecimal(out.val)
        /\ IsInteger(out.val)
        /\ DenotedInRange(out.val)
        /\ DenotedValue(out.val) = RegBytes(ra)
        /\ varint_in_register(out.val) = Returned(ra, 0)

\* -2^255 was written, as '-' and the 77 digits of 2^255
C6_Witness ==
    /\ op = "out"
    /\ RegBytes(ra) = MinValue
    /\ out.val = <<45>> \o Tup([i \in 1..Len(Pow255Digits) |-> 48 + Pow255Digits[i]])

\* C7: int2_varint, int4_varint and int8_varint build, for every value v of
\* their int16, int32 and int64 argument, the register whose 256-bit value is v.
C7_FromFixedExact ==
    /\ op = "int2_varint" => RegBytes(out.reg) = SExt(UTrunc(fixed, 2), RegisterBytes)
    /\ op = "int4_varint" => RegBytes(out.reg) = SExt(UTrunc(fixed, 4), RegisterBytes)
    /\ op = "int8_varint" => RegBytes(out.reg) = SExt(fixed, RegisterBytes)

\* the result of a conversion to the C type of n bytes is x when x lies in the
\* type's range and the range overflow when it does not
FixedOrOverflow(x, n) ==
    IF FitsBytes(x, n) THEN out.err = "none" /\ out.val = UTrunc(x, n)
    ELSE out.err = "overflow"

\* C8: varint_int2, varint_int4 and varint_int8 of a register holding x return
\* x when x lies in the signed range of the int16, int32 or int64 result, and
\* raise the range overflow otherwise.
C8_ToFixedRangeChecked ==
    /\ op = "int2" => FixedOrOverflow(RegBytes(ra), 2)
    /\ op = "int4" => FixedOrOverflow(RegBytes(ra), 4)
    /\ op = "int8" => FixedOrOverflow(RegBytes(ra), 8)

\* the conversion of 2^31 to int32 raised the overflow
C8_Witness ==
    /\ op = "int4"
    /\ RegBytes(ra) = Near(31, 0, RegisterBytes)
    /\ out.err = "overflow"

\* C9: varint_send of a value of n payload bytes writes one byte holding n,
\* then those n bytes, and nothing else.
C9_SendLengthThenPayload ==
    op = "send" => out.val = <<VARSIZE_ANY_EXHDR(da)>> \o Payload(da)

\* the message holds one length byte and as many bytes as it says
CompleteFrame(m) == Len(m) >= 1 /\ Len(m) = 1 + m[1]

\* C10: what varint_recv returns for a message is the bytes after the length
\* byte in full, and they are an encoding in the fewest bytes, of 0..32 bytes;
\* a message of more than 32 bytes, or of bytes that are no such encoding, is
\* rejected as malformed, and no other message is rejected.
C10_ReceiveOnlyCanonical ==
    (op = "recv" /\ CompleteFrame(wire)) =>
        /\ out.err = "none" =>
               /\ Payload(out.datum) = Tail(wire)
               /\ CanonicalBytes(Tail(wire))
        /\ ~CanonicalBytes(Tail(wire)) => out.err = "malformed"
        /\ CanonicalBytes(Tail(wire)) => out.err = "none"

\* C11: vb_register_mul_uint32 of a register r and a uint32 n raises the
\* overflow exactly when the exact product r * n lies outside
\* [-2^255, 2^255 - 1], and otherwise leaves the register holding r * n.
C11_MultiplySmallExact ==
    op = "mul" =>
        IF InRange(ExactProduct(RegBytes(ra), n32))
        THEN /\ out.err = "none"
             /\ SExt(RegBytes(out.reg), RegisterBytes + 8) = ExactProduct(RegBytes(ra), n32)
        ELSE out.err = "overflow"

\* C12: vb_register_divmod_uint32 of a register r and a uint32 n >= 1 leaves
\* the quotient q in the register and returns m with 0 <= m < n and
\* |r| = |q| * n + m, q zero or of the sign of r; for n = 0 it raises the
\* division by zero and leaves the register as it was.
C12_DivModSmallMagnitude ==
    op = "divmod" =>
        IF UIsZero(n32)
        THEN out.err = "divzero" /\ out.reg = ra
        ELSE /\ out.err = "none"
             /\ ULt(out.val, n32)
             /\ Magnitude256(RegBytes(ra))
                    = UAdd(UMul(Magnitude256(RegBytes(out.reg)), UExt(n32, RegisterBytes + 8)),
                           UExt(out.val, RegisterBytes + 8))
             /\ \/ out.reg = ZeroRegister
                \/ VB_IS_NEGATIVE(out.reg) = VB_IS_NEGATIVE(ra)

\* -7 was divided by 2: the quotient is -3 and the remainder 1
C12_Witness ==
    /\ op = "divmod"
    /\ RegBytes(ra) = USub(UZero(RegisterBytes), UFromNat(7, RegisterBytes))
    /\ n32 = U32(2)
    /\ out.err = "none"
    /\ RegBytes(out.reg) = USub(UZero(RegisterBytes), UFromNat(3, RegisterBytes))
    /\ out.val = U32(1)

\* C13: compare_varint, vb_register_in and varint_recv read the bytes of a
\* value only at the indices 0..len-1 of its payload, also when two values of
\* equal length tie on every byte and when a payload is empty; what
\* vb_register_in loads is then the same under both header layouts.
C13_ReadsWithinPayload ==
    /\ op = "compare_varint" =>
           /\ out.reads.a \subseteq 0..(VARSIZE_ANY_EXHDR(da) - 1)
           /\ out.reads.b \subseteq 0..(VARSIZE_ANY_EXHDR(db) - 1)
    /\ op = "vb_register_in" =>
           /\ out.reads \subseteq 0..(VARSIZE_ANY_EXHDR(da) - 1)
           /\ out.reg = BytesReg(IF Payload(da) = <<>> THEN UZero(RegisterBytes)
                                 ELSE SExt(Payload(da), RegisterBytes))
    /\ op = "varint_recv" =>
           \A i \in out.reads : ULt(i, U32(wire[1]))

====
